---- MODULE Spec2Model ----
(***************************************************************************)
(* State-machine model of feature_engine.encoding.ordinal.OrdinalEncoder.  *)
(*                                                                         *)
(* One encoder instance is modelled: its constructor arguments, the        *)
(* attributes fit() learns (encoder_dict_, input_shape_), and the three    *)
(* public operations fit, transform and inverse_transform.  A pandas       *)
(* DataFrame is a record [columns, rows]; a row is a tuple of cells aligned*)
(* with columns.  An absent Python value (None, or an attribute that was   *)
(* never set) is the empty tuple None, a present value x is Some(x).       *)
(***************************************************************************)
EXTENDS Integers, Sequences, FiniteSets, TLC

\* ------------------------------------------------------------------ bounds

\* Largest number of rows of a table handed to fit.
MaxRows == 2

\* Largest number of rows of a table handed to transform / inverse_transform.
MaxTRows == 1

\* ------------------------------------------------------------ value domains

None == <<>>
Some(x) == <<x>>
Get(o) == o[1]

\* Column layouts of the tables the encoder is called with.  All feature
\* columns are of object dtype; one layout has a feature column that is
\* itself named "target".
Schemas == {<<"colour">>, <<"colour", "size">>, <<"colour", "target">>}

\* Category values a column may hold.
Cats(col) == IF col = "colour" THEN {"blue", "red", "grey"} ELSE {"s", "l"}

\* Category values a column holds in the tables handed to fit: the second
\* column of the training data holds one category, so that "l" is a category
\* transform can meet that fit has never seen.
FitCats(col) == IF col = "colour" THEN Cats(col) ELSE {"s"}

\* Values of the target series y.
TargetVals == {0, 1}

\* The missing-value marker (NaN) in a column of categories and in a column
\* of codes.
NaNCat == "NaN"
NaNCode == -1

Range(s) == {s[i] : i \in 1..Len(s)}

\* The tables of layout `schema` with at most n rows whose cells are drawn,
\* column by column, from the sets vals[column].
TablesOver(schema, vals, n) ==
    LET rows == IF Len(schema) = 1
                THEN {<<a>> : a \in vals[schema[1]]}
                ELSE {<<a, b>> : a \in vals[schema[1]], b \in vals[schema[2]]}
    IN  UNION {{[columns |-> schema, rows |-> rs] : rs \in [1..k -> rows]} : k \in 0..n}

\* y for a table of n rows: absent, or one target value per row.
TargetsFor(n) == {None} \cup {Some(ys) : ys \in [1..n -> TargetVals]}

EmptyTable == [columns |-> <<>>, rows |-> <<>>]

\* ------------------------------------------------------- DataFrame helpers

\* X.shape
Shape(X) == <<Len(X.rows), Len(X.columns)>>

ColIndex(X, var) == CHOOSE i \in 1..Len(X.columns) : X.columns[i] = var

\* X[var]: the column as a sequence of cells, top to bottom.
Column(X, var) == [r \in 1..Len(X.rows) |-> X.rows[r][ColIndex(X, var)]]

\* Variant of unique: a newly met value is put in front of the values met
\* before it, so the result is in order of last-to-first appearance.
RECURSIVE unique_prepend(_)
unique_prepend(s) ==
    IF s = <<>> THEN <<>>
    ELSE LET init == unique_prepend(SubSeq(s, 1, Len(s) - 1))
             last == s[Len(s)]
         IN  IF last \in Range(init) THEN init ELSE <<last>> \o init

\* Series.unique(): the distinct values in order of first appearance.
RECURSIVE unique(_)
unique(s) ==
    IF s = <<>> THEN <<>>
    ELSE LET init == unique(SubSeq(s, 1, Len(s) - 1))
             last == s[Len(s)]
         IN  IF last \in Range(init) THEN init ELSE Append(init, last)

RECURSIVE SumWhere(_, _, _)
SumWhere(col, ys, g) ==
    IF col = <<>> THEN 0
    ELSE SumWhere(SubSeq(col, 1, Len(col) - 1), SubSeq(ys, 1, Len(ys) - 1), g)
         + (IF col[Len(col)] = g THEN ys[Len(ys)] ELSE 0)

CountWhere(col, g) == Cardinality({i \in 1..Len(col) : col[i] = g})

\* temp.groupby([var])["target"].mean(): for each distinct value g of the
\* column, the mean of the target over the rows holding g, kept as the exact
\* fraction <<sum, count>>.
groupby_mean(col, ys) == [g \in Range(col) |-> <<SumWhere(col, ys, g), CountWhere(col, g)>>]

\* m1 < m2 for two means <<sum, count>> with positive counts.
MeanLess(m1, m2) == m1[1] * m2[2] < m2[1] * m1[2]

\* Variant of sort_values_index: .sort_values(ascending=False).
sort_values_index_descending(means) ==
    LET G == DOMAIN means
        n == Cardinality(G)
    IN  {t \in [1..n -> G] :
            /\ \A i, j \in 1..n : i # j => t[i] # t[j]
            /\ \A i, j \in 1..n : i < j => ~MeanLess(means[t[i]], means[t[j]])}

\* .sort_values(ascending=True).index: the groups arranged by ascending mean.
\* pandas' default sort (quicksort) is not stable, so groups of equal mean may
\* come out in any relative order: the result is one member of this set.
sort_values_index(means) ==
    LET G == DOMAIN means
        n == Cardinality(G)
    IN  {t \in [1..n -> G] :
            /\ \A i, j \in 1..n : i # j => t[i] # t[j]
            /\ \A i, j \in 1..n : i < j => ~MeanLess(means[t[j]], means[t[i]])}

\* Variant of enumerate_dict: enumerate(t, 1), the codes start at 1.
enumerate_dict_from_1(t) == [k \in Range(t) |-> CHOOSE i \in 1..Len(t) : t[i] = k /\ \A j \in 1..Len(t) : t[j] = k => j <= i]

\* Variant of enumerate_dict: the index is not advanced, every key gets 0.
enumerate_dict_stuck(t) == [k \in Range(t) |-> 0]

\* {k: i for i, k in enumerate(t, 0)}: a later position overwrites an earlier
\* one of the same key.
enumerate_dict(t) == [k \in Range(t) |-> (CHOOSE i \in 1..Len(t) : t[i] = k /\ \A j \in 1..Len(t) : t[j] = k => j <= i) - 1]

\* ------------------------------------------------------------------- state

VARIABLES
    encoding_method,   \* self.encoding_method: "ordered" or "arbitrary"
    variables,         \* self.variables: None, or Some(list of column names)
    encoder_dict_,     \* self.encoder_dict_: None while the attribute does not
                       \* exist, else Some([column -> [category -> code]])
    input_shape_,      \* self.input_shape_: None while the attribute does not
                       \* exist, else <<rows, columns>>
    ctor_variables,    \* history: the `variables` argument of __init__
    op,                \* history: the last operation called
    raised,            \* history: "none", or the error the last call ended in
    X_in,              \* history: the table the last call worked on
    y_in,              \* history: the target the last fit worked on
    out,               \* history: the table the last transform /
                       \* inverse_transform returned
    orig               \* history: Some(X) when the last call was
                       \* inverse_transform on the output of transform(X)

vars == <<encoding_method, variables, encoder_dict_, input_shape_, ctor_variables, op, raised, X_in, y_in, out, orig>>

config == <<encoding_method, ctor_variables>>

\* The `variables` arguments the encoder is constructed with.
CtorVariables == {None, Some(<<"colour">>)}

\* __init__: encoding_method is one of the two accepted values, variables is
\* stored as given, and no learned attribute exists yet.
Init ==
    /\ encoding_method \in {"ordered", "arbitrary"}
    /\ ctor_variables \in CtorVariables
    /\ variables = ctor_variables
    /\ encoder_dict_ = None
    /\ input_shape_ = None
    /\ op = "__init__"
    /\ raised = "none"
    /\ X_in = EmptyTable
    /\ y_in = None
    /\ out = EmptyTable
    /\ orig = None

\* --------------------------------------------------------------------- fit

\* _check_fit_input_and_variables and _check_encoding_dictionary are methods
\* of BaseCategoricalTransformer as well; fit shows only that the first
\* returns X and leaves the columns to encode in self.variables (line 135
\* iterates it, also when the constructor was given variables=None).

\* The column list _check_fit_input_and_variables leaves in self.variables:
\* the configured list, or every categorical column of X when none was
\* configured (self.variables is None).
find_or_check_variables(vs, X) == IF vs = None THEN X.columns ELSE Get(vs)

\* _check_fit_input_and_variables accepts X: the columns to encode exist in X
\* (the tables of this model hold no missing value).
fit_input_ok(vs, X) ==
    /\ find_or_check_variables(vs, X) # <<>>
    /\ Range(find_or_check_variables(vs, X)) \subseteq Range(X.columns)

\* Variant of target_missing: the target is demanded whatever the method.
target_missing_any_method(method, y) == y = None

\* if self.encoding_method == "ordered": if y is None: raise ValueError
target_missing(method, y) == method = "ordered" /\ y = None

\* temp.columns = list(X.columns) + ["target"]: whether this gives temp two
\* columns of the name "target".
target_name_clash(X) == "target" \in Range(X.columns)

\* The values t of one pass of the loop over self.variables may take.
category_order(method, col, y) ==
    IF method = "ordered"
    THEN sort_values_index(groupby_mean(col, Get(y)))
    ELSE {unique(col)}

\* d[var] = mapping
dict_set(d, var, mapping) == [v \in DOMAIN d \cup {var} |-> IF v = var THEN mapping ELSE d[v]]

\* for var in self.variables: self.encoder_dict_[var] = {k: i for i, k in
\* enumerate(t, 0)}, from the i-th variable on, starting with the dictionary
\* d: the dictionaries the loop may end with.
RECURSIVE find_mappings_from(_, _, _, _, _, _)
find_mappings_from(d, i, method, vs, X, y) ==
    IF i > Len(vs) THEN {d}
    ELSE UNION {find_mappings_from(dict_set(d, vs[i], enumerate_dict(t)), i + 1, method, vs, X, y) :
                    t \in category_order(method, Column(X, vs[i]), y)}

\* self.encoder_dict_ = {} followed by the loop over self.variables.
find_mappings(method, vs, X, y) == find_mappings_from([v \in {} |-> <<>>], 1, method, vs, X, y)

\* _check_encoding_dictionary: every configured column has a mapping that is
\* not empty and holds no code twice.
check_encoding_dictionary(vs, d) ==
    \A v \in Range(vs) :
        /\ v \in DOMAIN d
        /\ DOMAIN d[v] # {}
        /\ \A a, b \in DOMAIN d[v] : d[v][a] = d[v][b] => a = b

\* A call that ends in an error before it has worked on its input.
Rejected(name, error) ==
    /\ op' = name
    /\ raised' = error
    /\ X_in' = EmptyTable
    /\ y_in' = None
    /\ out' = EmptyTable
    /\ orig' = None

\* OrdinalEncoder.fit, the whole call:
\*   line 122      the helper validates X and leaves the columns to encode in
\*                 self.variables (an error here changes nothing);
\*   lines 125-127 ordered mode without y raises;
\*   lines 129-130 y is joined to X under the fixed name "target";
\*   line 133      self.encoder_dict_ = {};
\*   lines 135-148 one mapping per variable;
\*   line 150      the consistency check, which may raise;
\*   line 152      self.input_shape_ = X.shape.
\* With a feature column named "target" the joined table has two columns of
\* that name: groupby(...)["target"] then selects both, and the chain
\* .mean().sort_values(ascending=True) raises in the first pass of the loop
\* (a DataFrame cannot be sorted without `by`), after line 133 has run.
fit(X, y) ==
    LET vs == find_or_check_variables(variables, X)
    IN  IF ~fit_input_ok(variables, X)
        THEN /\ Rejected("fit", "validation")
             /\ UNCHANGED <<config, variables, encoder_dict_, input_shape_>>
        ELSE IF target_missing(encoding_method, y)
        THEN /\ Rejected("fit", "no_target")
             /\ variables' = Some(vs)
             /\ UNCHANGED <<config, encoder_dict_, input_shape_>>
        ELSE IF encoding_method = "ordered" /\ target_name_clash(X)
        THEN /\ variables' = Some(vs)
             /\ encoder_dict_' = Some([v \in {} |-> <<>>])
             /\ op' = "fit"
             /\ raised' = "groupby_target"
             /\ X_in' = X
             /\ y_in' = y
             /\ out' = EmptyTable
             /\ orig' = None
             /\ UNCHANGED <<config, input_shape_>>
        ELSE \E d \in find_mappings(encoding_method, vs, X, y) :
             /\ variables' = Some(vs)
             /\ encoder_dict_' = Some(d)
             /\ op' = "fit"
             /\ X_in' = X
             /\ y_in' = y
             /\ out' = EmptyTable
             /\ orig' = None
             /\ IF check_encoding_dictionary(vs, d)
                THEN input_shape_' = Shape(X) /\ raised' = "none"
                ELSE raised' = "check_encoding_dictionary" /\ UNCHANGED input_shape_
             /\ UNCHANGED config

\* The calls fit(X, y) the model makes: every table of at most MaxRows rows in
\* every layout, with y absent or aligned row for row with X.
FitCalls == UNION {{<<X, y>> : y \in TargetsFor(Len(X.rows))} : X \in UNION {TablesOver(s, [c \in Range(s) |-> FitCats(c)], MaxRows) : s \in Schemas}}

FitStep == \E c \in FitCalls : fit(c[1], c[2])

SpecFit == Init /\ [][FitStep]_vars

\* A fit call that ends without an error.
SuccessfulFitStep == FitStep /\ raised' = "none"

\* The behaviours in which every call is a fit that succeeds.
SpecFitOK == Init /\ [][SuccessfulFitStep]_vars

\* ------------------------------------------- transform, inverse_transform

\* ordinal.py delegates both operations to BaseCategoricalTransformer, which
\* lives in another file of the package.  The base methods are modelled from
\* their contract: fitted check, structural validation of X, then a
\* per-column map in which a value the mapping lacks becomes the marker.

\* check_is_fitted: a mapping learned by fit is available for every column to
\* encode, and the shape of the fit input is known.
is_fitted ==
    /\ variables # None
    /\ encoder_dict_ # None
    /\ input_shape_ # None
    /\ Range(Get(variables)) \subseteq DOMAIN Get(encoder_dict_)

\* The validator's structural check of a transform / inverse_transform input:
\* as many columns as the fit input had, the encoded columns among them.
matches_training_df(X) ==
    /\ Len(X.columns) = input_shape_[2]
    /\ Range(Get(variables)) \subseteq Range(X.columns)

\* Series.map(mapping): a value the mapping does not hold becomes `missing`.
map_value(mapping, cell, missing) == IF cell \in DOMAIN mapping THEN mapping[cell] ELSE missing

\* {v: k for k, v in mapping.items()}
inverse_mapping(mapping) == [c \in {mapping[k] : k \in DOMAIN mapping} |-> CHOOSE k \in DOMAIN mapping : mapping[k] = c]

\* X[var] = X[var].map(d[var]) for every encoded column; the other columns and
\* the order of the rows are kept.
map_table(d, cols, X, missing) ==
    [columns |-> X.columns,
     rows |-> [r \in 1..Len(X.rows) |->
                 [c \in 1..Len(X.columns) |->
                     IF X.columns[c] \in cols
                     THEN map_value(d[X.columns[c]], X.rows[r][c], missing)
                     ELSE X.rows[r][c]]]]

\* Variant of base_transform: a category the mapping does not hold gets code 0.
base_transform_unseen_0(d, cols, X) == map_table(d, cols, X, 0)

\* BaseCategoricalTransformer.transform
base_transform(d, cols, X) == map_table(d, cols, X, NaNCode)

\* BaseCategoricalTransformer.inverse_transform
base_inverse_transform(d, cols, X) == map_table([v \in DOMAIN d |-> inverse_mapping(d[v])], cols, X, NaNCat)

\* What transform leaves in the history variables.
transform_result(X) ==
    IF ~is_fitted
    THEN Rejected("transform", "not_fitted")
    ELSE IF ~matches_training_df(X)
    THEN Rejected("transform", "validation")
    ELSE /\ op' = "transform"
         /\ raised' = "none"
         /\ X_in' = X
         /\ y_in' = None
         /\ out' = base_transform(Get(encoder_dict_), Range(Get(variables)), X)
         /\ orig' = None

\* Variant of transform: it also records the shape of its input.
transform_records_shape(X) ==
    /\ transform_result(X)
    /\ input_shape_' = IF is_fitted /\ matches_training_df(X) THEN Shape(X) ELSE input_shape_
    /\ UNCHANGED <<config, variables, encoder_dict_>>

\* X = super().transform(X); return X
transform(X) ==
    /\ transform_result(X)
    /\ UNCHANGED <<config, variables, encoder_dict_, input_shape_>>

\* Whether X is the table the last call, a transform, returned.
IsLastOutput(X) ==
    /\ op = "transform"
    /\ raised = "none"
    /\ X.columns = out.columns
    /\ X.rows = out.rows

inverse_transform(X) ==
    /\ IF ~is_fitted
       THEN Rejected("inverse_transform", "not_fitted")
       ELSE IF ~matches_training_df(X)
       THEN Rejected("inverse_transform", "validation")
       ELSE /\ op' = "inverse_transform"
            /\ raised' = "none"
            /\ X_in' = X
            /\ y_in' = None
            /\ out' = base_inverse_transform(Get(encoder_dict_), Range(Get(variables)), X)
            /\ orig' = IF IsLastOutput(X) THEN Some(X_in) ELSE None
    /\ UNCHANGED <<config, variables, encoder_dict_, input_shape_>>

\* The tables transform is called with.
TransformCalls == UNION {TablesOver(s, [c \in Range(s) |-> Cats(c)], MaxTRows) : s \in Schemas}

\* Codes a column handed to inverse_transform may hold: the marker, every code
\* a mapping of the column can hold, and one code no mapping holds.
CodeVals(col) == {NaNCode} \cup (0..Cardinality(Cats(col)))

\* The tables inverse_transform is called with while `cols` are the encoded
\* columns: those columns hold codes, the others categories.
CodeTablesOf(schema, cols, n) ==
    TablesOver(schema, [c \in Range(schema) |-> IF c \in cols THEN CodeVals(c) ELSE Cats(c)], n)

TransformStep == \E X \in TransformCalls : transform(X)

InverseTransformStep ==
    \E s \in Schemas :
        \E X \in CodeTablesOf(s, IF variables = None THEN {} ELSE Range(Get(variables)), MaxTRows) :
            inverse_transform(X)

Next == FitStep \/ TransformStep \/ InverseTransformStep

Spec == Init /\ [][Next]_vars

\* ------------------------------------------------------------- properties

FitOK == op = "fit" /\ raised = "none"

\* The learned dictionary and the encoded columns, where they exist.
D == Get(encoder_dict_)
Vs == Range(Get(variables))

\* The distinct values column v of table X holds.
CatsIn(X, v) == Range(Column(X, v))

\* The rows of X holding category a in column v.
RowsWith(X, v, a) == {r \in 1..Len(X.rows) : X.rows[r][ColIndex(X, v)] = a}

\* The first row of X holding category a in column v.
FirstRow(X, v, a) == CHOOSE r \in RowsWith(X, v, a) : \A q \in RowsWith(X, v, a) : r <= q

RECURSIVE SumOver(_, _)
SumOver(R, ys) ==
    IF R = {} THEN 0
    ELSE LET r == CHOOSE r \in R : TRUE IN ys[r] + SumOver(R \ {r}, ys)

\* mean(ys | column v = a) < mean(ys | column v = b), as sums over counts.
TargetMeanLess(X, ys, v, a, b) ==
    SumOver(RowsWith(X, v, a), ys) * Cardinality(RowsWith(X, v, b))
        < SumOver(RowsWith(X, v, b), ys) * Cardinality(RowsWith(X, v, a))

\* Column v's categories are ranked by the mean of ys: a lower mean, a lower
\* code.
RankedByTargetMean(X, ys, v) ==
    \A a, b \in CatsIn(X, v) : TargetMeanLess(X, ys, v, a, b) => D[v][a] < D[v][b]

\* C1: after every successful fit, in either mode, encoder_dict_ has exactly
\* one entry per configured column, and the entry maps the k distinct
\* categories the column held in the fit input one-to-one onto {0, ..., k-1}.
C1_DenseBijectiveCodes ==
    FitOK =>
        /\ DOMAIN D = Vs
        /\ \A v \in Vs :
              /\ DOMAIN D[v] = CatsIn(X_in, v)
              /\ {D[v][a] : a \in DOMAIN D[v]} = 0..(Cardinality(CatsIn(X_in, v)) - 1)
              /\ \A a, b \in DOMAIN D[v] : D[v][a] = D[v][b] => a = b

\* A successful ordered fit of two columns in which two colours have the same
\* target mean.
C1_Witness ==
    /\ FitOK
    /\ encoding_method = "ordered"
    /\ Cardinality(Vs) = 2
    /\ \E a, b \in CatsIn(X_in, "colour") :
          /\ a # b
          /\ ~TargetMeanLess(X_in, Get(y_in), "colour", a, b)
          /\ ~TargetMeanLess(X_in, Get(y_in), "colour", b, a)

\* C2: after a successful fit in ordered mode, for every configured column and
\* every two categories a, b of it, mean(target | a) < mean(target | b) implies
\* code(a) < code(b).
C2_OrderedByTargetMean ==
    (FitOK /\ encoding_method = "ordered") =>
        \A v \in Vs : RankedByTargetMean(X_in, Get(y_in), v)

\* A successful ordered fit in which the colour met second has the strictly
\* lower target mean, and so the lower code.
C2_Witness ==
    /\ FitOK
    /\ encoding_method = "ordered"
    /\ \E a, b \in CatsIn(X_in, "colour") :
          /\ FirstRow(X_in, "colour", b) < FirstRow(X_in, "colour", a)
          /\ TargetMeanLess(X_in, Get(y_in), "colour", a, b)
          /\ D["colour"][a] = 0

\* C3: after a successful fit in arbitrary mode, the code of a category is the
\* number of distinct categories met before it when scanning the column from
\* the first row to the last; so code(a) < code(b) exactly when a is first met
\* before b.
C3_FirstSeenOrder ==
    (FitOK /\ encoding_method = "arbitrary") =>
        \A v \in Vs : \A a \in CatsIn(X_in, v) :
            /\ a \in DOMAIN D[v]
            /\ D[v][a] = Cardinality({b \in CatsIn(X_in, v) : FirstRow(X_in, v, b) < FirstRow(X_in, v, a)})

\* A successful arbitrary fit of a colour column that holds red, then blue.
C3_Witness ==
    /\ FitOK
    /\ encoding_method = "arbitrary"
    /\ Len(X_in.rows) >= 2
    /\ Column(X_in, "colour")[1] = "red"
    /\ Column(X_in, "colour")[2] = "blue"
    /\ D["colour"]["red"] = 0
    /\ D["colour"]["blue"] = 1

\* The cells (row, column index) of table X that lie in an encoded column.
EncodedCells(X) == {rc \in (1..Len(X.rows)) \X (1..Len(X.columns)) : X.columns[rc[2]] \in Vs}

\* C4: round trip.  When inverse_transform is applied to the output of
\* transform(X), every cell of an encoded column whose category the column's
\* mapping holds (it was present during fit) holds the original category again.
C4_RoundTrip ==
    (op = "inverse_transform" /\ raised = "none" /\ orig # None) =>
        \A rc \in EncodedCells(Get(orig)) :
            LET col == Get(orig).columns[rc[2]]
                cat == Get(orig).rows[rc[1]][rc[2]]
            IN  cat \in DOMAIN D[col] => out.rows[rc[1]][rc[2]] = cat

\* inverse_transform has been applied to the output of transform(X), X holding
\* a colour of a mapping of at least two colours.
C4_Witness ==
    /\ op = "inverse_transform"
    /\ raised = "none"
    /\ orig # None
    /\ Cardinality(DOMAIN D["colour"]) >= 2
    /\ \E rc \in EncodedCells(Get(orig)) :
          /\ Get(orig).columns[rc[2]] = "colour"
          /\ Get(orig).rows[rc[1]][rc[2]] \in DOMAIN D["colour"]
          /\ D["colour"][Get(orig).rows[rc[1]][rc[2]]] = 1
          /\ out.rows[rc[1]][rc[2]] = Get(orig).rows[rc[1]][rc[2]]

\* C5: a transform that meets a category its column's mapping does not hold
\* does not fail for it: the cell becomes the missing-value marker, and every
\* cell holding a category of the mapping becomes that category's code.  The
\* only errors of transform are "not fitted" and the validator's.
C5_UnseenBecomesMarker ==
    /\ (op = "transform" /\ raised = "none") =>
          \A rc \in EncodedCells(X_in) :
              LET col == X_in.columns[rc[2]]
                  cat == X_in.rows[rc[1]][rc[2]]
              IN  out.rows[rc[1]][rc[2]] = IF cat \in DOMAIN D[col] THEN D[col][cat] ELSE NaNCode
    /\ (op = "transform" /\ raised # "none") => raised \in {"not_fitted", "validation"}
    /\ (op = "transform" /\ raised = "not_fitted") => ~is_fitted

\* A transform has returned a table with the marker in one encoded cell and a
\* learned code in another.
C5_Witness ==
    /\ op = "transform"
    /\ raised = "none"
    /\ \E rc \in EncodedCells(X_in) :
          /\ X_in.rows[rc[1]][rc[2]] \notin DOMAIN D[X_in.columns[rc[2]]]
          /\ out.rows[rc[1]][rc[2]] = NaNCode
    /\ \E rc \in EncodedCells(X_in) :
          /\ X_in.rows[rc[1]][rc[2]] \in DOMAIN D[X_in.columns[rc[2]]]
          /\ out.rows[rc[1]][rc[2]] >= 0

\* C6: after any sequence of successful fits, encoder_dict_ is a dictionary a
\* fresh encoder of the same constructor arguments could learn from the last
\* fit's input alone.
C6_RefitEqualsFreshFit ==
    FitOK => D \in find_mappings(encoding_method, find_or_check_variables(ctor_variables, X_in), X_in, y_in)

\* C7: a fit that ends in an error leaves encoder_dict_ and input_shape_ as
\* they were before the call.
C7_FailedFitCommitsNothing ==
    [][(op' = "fit" /\ raised' # "none") => (encoder_dict_' = encoder_dict_ /\ input_shape_' = input_shape_)]_vars

\* C8: the missing-target error is raised in ordered mode only; in arbitrary
\* mode a fit fails only on the validator's or the consistency check's
\* account, never for want of a target.  A fit that ends in the missing-target
\* error leaves encoder_dict_ and input_shape_ as they were (absent on a
\* never-fitted encoder), and no ordered fit succeeds without a target.
C8_MissingTarget ==
    /\ [](raised = "no_target" => (op = "fit" /\ encoding_method = "ordered"))
    /\ []((op = "fit" /\ encoding_method = "arbitrary" /\ raised # "none")
            => raised \in {"validation", "check_encoding_dictionary"})
    /\ []((FitOK /\ encoding_method = "ordered") => y_in # None)
    /\ [][(raised' = "no_target") => (encoder_dict_' = encoder_dict_ /\ input_shape_' = input_shape_)]_vars

\* An ordered fit without target has failed on an encoder that was fitted
\* before and still holds its mapping.
C8_Witness ==
    /\ op = "fit"
    /\ raised = "no_target"
    /\ encoding_method = "ordered"
    /\ encoder_dict_ # None
    /\ input_shape_ # None
    /\ DOMAIN D = Vs

C10_TargetNeverCollides ==
    (op = "fit" /\ encoding_method = "ordered" /\ y_in # None /\ X_in.rows # <<>>) =>
        /\ raised = "none"
        /\ \A v \in Vs : v \in DOMAIN D /\ RankedByTargetMean(X_in, Get(y_in), v)

====
